---- MODULE Spec2Model ----
(***************************************************************************)
(* State-machine model of scripts/make_portfolio_report.py: one run of     *)
(* main(), from os.makedirs to doc.build, with the font resolver           *)
(* ensure_korean_font_matplotlib() inlined at its call site.               *)
(*                                                                         *)
(* Strings the source writes in Hangul are romanised here (the module is   *)
(* ASCII): the trend column named by line 99 is "jeonche", and the output  *)
(* files of lines 115-117 and 156 are "01_line.png", "02_scatter.png",     *)
(* "03_bubble.png" and "portfolio.pdf".                                    *)
(***************************************************************************)
EXTENDS Integers, Sequences, FiniteSets, TLC

VARIABLES
    pc,               \* the statement of main() / the resolver about to run
    crashedAt,        \* the stage whose uncaught exception ended the run ("" if none)
    ttflist,          \* font_manager.fontManager.ttflist, as the names f.name in list order
    hostFonts,        \* the font families installed on the host
    fontCacheFile,    \* families in the manager that _load_fontmanager built and dumped
    cmdLog,           \* the subprocess.run calls made so far, with their outcome
    kr_font,          \* main()'s kr_font (None is the empty name)
    rcFontFamily,     \* rcParams["font.family"] (the empty name: left at its default)
    reviews,          \* rows of REVIEWS_PATH as read: [at, score]
    trend,            \* TREND_PATH as read: [cols, rows]
    weekly_reviews,   \* lines 88-92
    weekly_trend,     \* lines 101-105
    trend_metric_col, \* line 99
    merged,           \* lines 107-108
    pear,             \* (pear_r, pear_p) of line 111
    spear,            \* (spear_r, spear_p) of line 112
    charts,           \* the chart files written so far, in order, with the metric label drawn
    doc               \* the PDF of line 272, once written

vars == <<pc, crashedAt, ttflist, hostFonts, fontCacheFile, cmdLog, kr_font, rcFontFamily,
          reviews, trend, weekly_reviews, weekly_trend, trend_metric_col, merged,
          pear, spear, charts, doc>>

fontVars == <<ttflist, hostFonts, fontCacheFile, cmdLog, kr_font, rcFontFamily>>
dataVars == <<reviews, trend, weekly_reviews, weekly_trend, trend_metric_col, merged>>
outVars  == <<pear, spear, charts, doc>>

(***************************************************************************)
(* Bounds of the model.                                                    *)
(***************************************************************************)
MaxFonts   == 2    \* entries of ttflist
MaxReviews == 2    \* rows of the review file
MaxTrend   == 2    \* rows of the trend file

\* the sequences over S of one to n entries
BoundedSeq(S, n) == UNION {[1..k -> S] : k \in 1..n}
Range(s) == {s[i] : i \in 1..Len(s)}

RECURSIVE SumSeq(_)
SumSeq(s) == IF s = <<>> THEN 0 ELSE Head(s) + SumSeq(Tail(s))

RECURSIVE Flatten(_)
Flatten(ss) == IF ss = <<>> THEN <<>> ELSE Head(ss) \o Flatten(Tail(ss))

(***************************************************************************)
(* Font names are sequences of characters, so that str.lower() and the     *)
(* substring test of line 57 are computed, not assumed.                    *)
(***************************************************************************)
NanumGothic   == <<"N","a","n","u","m","G","o","t","h","i","c">>
MalgunGothic  == <<"M","a","l","g","u","n"," ","G","o","t","h","i","c">>
AppleGothic   == <<"A","p","p","l","e","G","o","t","h","i","c">>
NotoSansCJKKR == <<"N","o","t","o"," ","S","a","n","s"," ","C","J","K"," ","K","R">>
NotoSansCJKkr == <<"N","o","t","o","S","a","n","s","C","J","K","k","r">>
NanumMyeongjo == <<"N","a","n","u","m","M","y","e","o","n","g","j","o">>
NotoSans      == <<"N","o","t","o"," ","S","a","n","s">>
DejaVuSans    == <<"D","e","j","a","V","u"," ","S","a","n","s">>
None          == <<>>

\* line 36
candidates == <<NanumGothic, MalgunGothic, AppleGothic, NotoSansCJKKR, NotoSansCJKkr>>

\* line 57: the three hint substrings
hints == << <<"n","a","n","u","m">>, <<"n","o","t","o">>, <<"g","o","t","h","i","c">> >>

\* The families a host may carry in this model: two preferred ones, two that only a
\* hint matches, one that nothing matches.
FontNames == {NanumGothic, MalgunGothic, NanumMyeongjo, NotoSans, DejaVuSans}

\* What "apt-get install -y fonts-nanum" adds to the host when it succeeds.
PackageFonts == {NanumGothic, NanumMyeongjo}

UpperChars == <<"A","B","C","D","E","F","G","H","I","J","K","L","M",
                "N","O","P","Q","R","S","T","U","V","W","X","Y","Z">>
LowerChars == <<"a","b","c","d","e","f","g","h","i","j","k","l","m",
                "n","o","p","q","r","s","t","u","v","w","x","y","z">>

\* str.lower(), line 56
LowerChar(c) ==
    IF \E i \in 1..Len(UpperChars) : UpperChars[i] = c
    THEN LowerChars[CHOOSE i \in 1..Len(UpperChars) : UpperChars[i] = c]
    ELSE c
Lower(name) == [i \in 1..Len(name) |-> LowerChar(name[i])]

\* needle in hay, line 57
Contains(hay, needle) ==
    \E k \in 0..(Len(hay) - Len(needle)) :
        \A j \in 1..Len(needle) : hay[k + j] = needle[j]

\* line 57
MatchesHint(name) ==
    LET low == Lower(name) IN \E h \in 1..Len(hints) : Contains(low, hints[h])

\* lines 37 and 50: {f.name for f in font_manager.fontManager.ttflist}
Available(list) == Range(list)

\* lines 38-40 and 51-53: the first candidate, in candidate order, that is available
FirstCandidate(available) ==
    IF \E i \in 1..Len(candidates) : candidates[i] \in available
    THEN candidates[CHOOSE i \in 1..Len(candidates) :
                        /\ candidates[i] \in available
                        /\ \A j \in 1..(i - 1) : candidates[j] \notin available]
    ELSE None

\* lines 55-58: the first entry of ttflist, in list order, that a hint matches
FirstHinted(list) ==
    IF \E i \in 1..Len(list) : MatchesHint(list[i])
    THEN list[CHOOSE i \in 1..Len(list) :
                  /\ MatchesHint(list[i])
                  /\ \A j \in 1..(i - 1) : ~MatchesHint(list[j])]
    ELSE None

\* line 49: font_manager._load_fontmanager(try_read_cache=False) builds a new
\* FontManager from the fonts on the host, dumps it to the cache file and returns
\* it. The call's value is dropped and the module attribute
\* font_manager.fontManager is not rebound, so the list that line 50 reads is the
\* one line 37 read.
ManagerAfterReload(list, host) == list

(***************************************************************************)
(* Dates and the ISO calendar of lines 86-87 and 95-96. A parsed timestamp *)
(* is [y, m, d]; BadDate is a cell that does not parse to a timestamp.     *)
(***************************************************************************)
BadDate == [y |-> 0, m |-> 0, d |-> 0]
Parseable(dt) == dt # BadDate

IsLeap(y) == (y % 4 = 0) /\ ((y % 100 # 0) \/ (y % 400 = 0))

DaysInMonth(y, m) ==
    IF m \in {1, 3, 5, 7, 8, 10, 12} THEN 31
    ELSE IF m \in {4, 6, 9, 11} THEN 30
    ELSE IF IsLeap(y) THEN 29 ELSE 28

RECURSIVE DaysBeforeMonth(_, _)
DaysBeforeMonth(y, m) ==
    IF m = 1 THEN 0 ELSE DaysBeforeMonth(y, m - 1) + DaysInMonth(y, m - 1)

DaysBeforeYear(y) ==
    LET p == y - 1 IN p * 365 + (p \div 4) - (p \div 100) + (p \div 400)

\* proleptic Gregorian ordinal; day 1 is a Monday
Ordinal(dt) == DaysBeforeYear(dt.y) + DaysBeforeMonth(dt.y, dt.m) + dt.d

\* ordinal of the Monday that starts ISO week 1 of year y
IsoWeek1Monday(y) ==
    LET firstday     == Ordinal([y |-> y, m |-> 1, d |-> 1])
        firstweekday == (firstday + 6) % 7
        week1monday  == firstday - firstweekday
    IN  IF firstweekday > 3 THEN week1monday + 7 ELSE week1monday

\* .dt.isocalendar(): the (year, week) of a timestamp
IsoCalendar(dt) ==
    LET today == Ordinal(dt)
        off   == today - IsoWeek1Monday(dt.y)
    IN  IF off < 0
        THEN [year |-> dt.y - 1,
              week |-> ((today - IsoWeek1Monday(dt.y - 1)) \div 7) + 1]
        ELSE IF (off \div 7) >= 52 /\ today >= IsoWeek1Monday(dt.y + 1)
        THEN [year |-> dt.y + 1, week |-> 1]
        ELSE [year |-> dt.y, week |-> (off \div 7) + 1]

(***************************************************************************)
(* Means are exact fractions in lowest terms: two means are equal as       *)
(* floats exactly when they are equal as fractions, for the small integer  *)
(* cells of this model.                                                    *)
(***************************************************************************)
RECURSIVE Gcd(_, _)
Gcd(a, b) == IF b = 0 THEN a ELSE Gcd(b, a % b)

Frac(n, d) == LET g == Gcd(n, d) IN [num |-> n \div g, den |-> d \div g]

\* the "mean" reducer of lines 90 and 103
Mean(vals) == Frac(SumSeq(vals), Len(vals))

KeyOf(row) == [year |-> row.iso_year, week |-> row.iso_week]

KeyLess(a, b) == a.year < b.year \/ (a.year = b.year /\ a.week < b.week)

\* groupby(["iso_year","iso_week"]) sorts the group keys
RECURSIVE SortedKeys(_)
SortedKeys(S) ==
    IF S = {} THEN <<>>
    ELSE LET k == CHOOSE k \in S : \A o \in S \ {k} : KeyLess(k, o)
         IN  <<k>> \o SortedKeys(S \ {k})

\* lines 86-87: the review frame with its two derived columns
ReviewFrame(rows) ==
    [i \in 1..Len(rows) |->
        [at |-> rows[i].at, score |-> rows[i].score,
         iso_year |-> IsoCalendar(rows[i].at).year,
         iso_week |-> IsoCalendar(rows[i].at).week]]

\* lines 88-92 with "sum" in place of "mean" (the variant C2 is tested against)
GroupReviewsSum(frame) ==
    LET keys == SortedKeys({KeyOf(frame[i]) : i \in 1..Len(frame)})
    IN  [i \in 1..Len(keys) |->
            LET grp == SelectSeq(frame, LAMBDA r : KeyOf(r) = keys[i])
            IN  [iso_year |-> keys[i].year, iso_week |-> keys[i].week,
                 avg_score |-> Frac(SumSeq([j \in 1..Len(grp) |-> grp[j].score]), 1),
                 review_count |-> Len(grp)]]
\* lines 88-92
GroupReviews(frame) ==
    LET keys == SortedKeys({KeyOf(frame[i]) : i \in 1..Len(frame)})
    IN  [i \in 1..Len(keys) |->
            LET grp == SelectSeq(frame, LAMBDA r : KeyOf(r) = keys[i])
            IN  [iso_year |-> keys[i].year, iso_week |-> keys[i].week,
                 avg_score |-> Mean([j \in 1..Len(grp) |-> grp[j].score]),
                 review_count |-> Len(grp)]]

(***************************************************************************)
(* The trend table. A column is [name, numeric, shift]; a row is           *)
(* [date, base], and its cell in a numeric column is base + the column's   *)
(* shift, so that two numeric columns of one table never hold the same     *)
(* series.                                                                 *)
(***************************************************************************)
TotalCol == "jeonche"
NoCol    == "None"

Col(name, numeric, shift) == [name |-> name, numeric |-> numeric, shift |-> shift]

\* lines 94-96: "date" parsed in place, iso_year and iso_week appended as int columns
TrendFrame(t) ==
    [cols |-> t.cols \o <<Col("iso_year", TRUE, 0), Col("iso_week", TRUE, 0)>>,
     rows |-> [i \in 1..Len(t.rows) |->
                 [date |-> t.rows[i].date, base |-> t.rows[i].base,
                  iso_year |-> IsoCalendar(t.rows[i].date).year,
                  iso_week |-> IsoCalendar(t.rows[i].date).week]]]

ColNames(cols) == {cols[i].name : i \in 1..Len(cols)}
ColNamed(cols, name) == cols[CHOOSE i \in 1..Len(cols) : cols[i].name = name]

\* line 98: select_dtypes(include=[np.number]).columns.tolist()
NumericCols(cols) ==
    LET num == SelectSeq(cols, LAMBDA c : c.numeric)
    IN  [i \in 1..Len(num) |-> num[i].name]

\* line 99
SelectMetric(frame) ==
    IF TotalCol \in ColNames(frame.cols) THEN TotalCol
    ELSE IF NumericCols(frame.cols) # <<>> THEN Head(NumericCols(frame.cols))
    ELSE NoCol

Cell(frame, row, name) ==
    IF name = "iso_year" THEN row.iso_year
    ELSE IF name = "iso_week" THEN row.iso_week
    ELSE row.base + ColNamed(frame.cols, name).shift

\* line 103 raises when the column is absent or holds no numbers
CanAggregate(frame, name) ==
    name \in ColNames(frame.cols) /\ ColNamed(frame.cols, name).numeric

\* lines 101-105
GroupTrend(frame, name) ==
    LET keys == SortedKeys({KeyOf(frame.rows[i]) : i \in 1..Len(frame.rows)})
    IN  [i \in 1..Len(keys) |->
            LET grp == SelectSeq(frame.rows, LAMBDA r : KeyOf(r) = keys[i])
            IN  [iso_year |-> keys[i].year, iso_week |-> keys[i].week,
                 trend_mean |-> Mean([j \in 1..Len(grp) |-> Cell(frame, grp[j], name)])]]

\* line 108 with a factor of 10 (the variant C9 is tested against)
WeekIndexTimesTen(year, week) == year * 10 + week
\* line 108
WeekIndex(year, week) == year * 100 + week

\* line 107 with how="left" (the variant C1 is tested against)
MergeLeft(left, right) ==
    Flatten([i \in 1..Len(left) |->
        LET hits == SelectSeq(right, LAMBDA r : KeyOf(r) = KeyOf(left[i]))
        IN  IF hits = <<>>
            THEN << [iso_year |-> left[i].iso_year, iso_week |-> left[i].iso_week,
                     avg_score |-> left[i].avg_score,
                     review_count |-> left[i].review_count,
                     trend_mean |-> Frac(0, 1)] >>
            ELSE [j \in 1..Len(hits) |->
                    [iso_year |-> left[i].iso_year, iso_week |-> left[i].iso_week,
                     avg_score |-> left[i].avg_score,
                     review_count |-> left[i].review_count,
                     trend_mean |-> hits[j].trend_mean]]])
\* line 107: for each left row in order, every right row with the same key
MergeInner(left, right) ==
    Flatten([i \in 1..Len(left) |->
        LET hits == SelectSeq(right, LAMBDA r : KeyOf(r) = KeyOf(left[i]))
        IN  [j \in 1..Len(hits) |->
                [iso_year |-> left[i].iso_year, iso_week |-> left[i].iso_week,
                 avg_score |-> left[i].avg_score,
                 review_count |-> left[i].review_count,
                 trend_mean |-> hits[j].trend_mean]]])

\* lines 107-108
MergeWithIndex(left, right) ==
    LET m == MergeInner(left, right)
    IN  [i \in 1..Len(m) |->
            [iso_year |-> m[i].iso_year, iso_week |-> m[i].iso_week,
             avg_score |-> m[i].avg_score, review_count |-> m[i].review_count,
             trend_mean |-> m[i].trend_mean,
             week_index |-> WeekIndex(m[i].iso_year, m[i].iso_week)]]

(***************************************************************************)
(* The two correlations of lines 111-112. A coefficient is kept as         *)
(* [nan, sign]: whether it is NaN and, if not, the sign of the covariance  *)
(* it is computed from.                                                    *)
(***************************************************************************)
RECURSIVE Product(_)
Product(s) == IF s = <<>> THEN 1 ELSE Head(s) * Product(Tail(s))

\* a sequence of fractions on one common denominator, as integers
Scaled(fs) ==
    LET D == Product([i \in 1..Len(fs) |-> fs[i].den])
    IN  [i \in 1..Len(fs) |-> fs[i].num * (D \div fs[i].den)]

Sign(n) == IF n > 0 THEN 1 ELSE IF n < 0 THEN 0 - 1 ELSE 0

\* sign of n*sum(x*y) - sum(x)*sum(y)
CovSign(xs, ys) ==
    Sign(Len(xs) * SumSeq([i \in 1..Len(xs) |-> xs[i] * ys[i]]) - SumSeq(xs) * SumSeq(ys))

IsConstant(xs) == \A i \in 1..Len(xs) : xs[i] = xs[1]

\* scipy.stats.rankdata with average ranks, doubled to stay in the integers
Ranks(xs) ==
    [i \in 1..Len(xs) |->
        2 * Cardinality({j \in 1..Len(xs) : xs[j] < xs[i]})
          + Cardinality({j \in 1..Len(xs) : xs[j] = xs[i]}) + 1]

NaN      == [nan |-> TRUE, sign |-> 0]
Num(s)   == [nan |-> FALSE, sign |-> s]
NoStat   == [set |-> FALSE, r |-> Num(0), p |-> Num(0)]
Stat(r, p) == [set |-> TRUE, r |-> r, p |-> p]

\* pearsonr raises ValueError below two observations
PearsonRaises(x, y) == Len(x) < 2

\* pearsonr(x, y) for two or more observations: (nan, nan) with a warning when
\* either input is constant
Pearson(x, y) ==
    IF IsConstant(x) \/ IsConstant(y)
    THEN Stat(NaN, NaN)
    ELSE Stat(Num(CovSign(Scaled(x), Scaled(y))), Num(1))

\* spearmanr(x, y): the same on the ranks
Spearman(x, y) ==
    IF Len(x) < 2 \/ IsConstant(x) \/ IsConstant(y)
    THEN Stat(NaN, NaN)
    ELSE Stat(Num(CovSign(Ranks(Scaled(x)), Ranks(Scaled(y)))), Num(1))

\* f"{v:.3f}" and f"{v:.2e}" of lines 206-207: Python prints a NaN as "nan"
FormatF(v) == IF v.nan THEN "nan" ELSE IF v.sign < 0 THEN "-d.ddd" ELSE "d.ddd"
FormatE(v) == IF v.nan THEN "nan" ELSE "d.dde-dd"

\* lines 206-207: one cell of the statistics table
StatCell(st) == <<FormatF(st.r), FormatE(st.p)>>

\* lines 61-71: the alias registered for the PDF, given the candidate files that exist
RegisterKoreanFontReportlab(existing) == IF existing # {} THEN "KFont" ELSE "Helvetica"

NoDoc == [written |-> FALSE, font_name |-> "", metric |-> "",
          pearson |-> <<"", "">>, spearman |-> <<"", "">>, images |-> <<>>]

(***************************************************************************)
(* Inputs: the cells the two CSV files may hold.                           *)
(***************************************************************************)
D20201221 == [y |-> 2020, m |-> 12, d |-> 21]
D20201228 == [y |-> 2020, m |-> 12, d |-> 28]
D20210103 == [y |-> 2021, m |-> 1, d |-> 3]
D20210104 == [y |-> 2021, m |-> 1, d |-> 4]
D20210111 == [y |-> 2021, m |-> 1, d |-> 11]
D20240103 == [y |-> 2024, m |-> 1, d |-> 3]
D20240104 == [y |-> 2024, m |-> 1, d |-> 4]

\* a Sunday that belongs to ISO week 53 of the year before, and two days of one week
Dates     == {D20210103, D20240103, D20240104}
\* five weeks' worth of days across an ISO year boundary with a week 53
JoinDates == {D20201221, D20201228, D20210103, D20210104, D20210111}
Scores    == {3, 5}
Bases     == {10, 20}

\* the rows a file may hold: any date with any value, or a row whose date cell is
\* no date
ReviewCells == [at : Dates, score : Scores] \cup {[at |-> BadDate, score |-> 3]}
TrendCells  == [date : Dates, base : Bases] \cup {[date |-> BadDate, base |-> 10]}

DateRank(dt) == IF Parseable(dt) THEN Ordinal(dt) ELSE 0

\* Each file holds at least one row. The files are enumerated up to the order of
\* their rows, which no later step reads: both group-bys sort by key and reduce
\* each group by mean and size.
ReviewInputs(cells) ==
    {r \in BoundedSeq(cells, MaxReviews) :
        \A i \in 1..(Len(r) - 1) :
            DateRank(r[i].at) * 100 + r[i].score <= DateRank(r[i + 1].at) * 100 + r[i + 1].score}

TrendRowInputs(cells) ==
    {r \in BoundedSeq(cells, MaxTrend) :
        \A i \in 1..(Len(r) - 1) :
            DateRank(r[i].date) * 100 + r[i].base <= DateRank(r[i + 1].date) * 100 + r[i + 1].base}

DateCol == Col("date", FALSE, 0)

LayoutTotal       == <<DateCol, Col(TotalCol, TRUE, 0)>>
LayoutTotalSecond == <<DateCol, Col("search", TRUE, 1), Col(TotalCol, TRUE, 0)>>
LayoutNoTotal     == <<DateCol, Col("label", FALSE, 0), Col("search", TRUE, 0), Col("orders", TRUE, 1)>>
LayoutNoNumeric   == <<DateCol, Col("label", FALSE, 0)>>
LayoutTextTotal   == <<DateCol, Col("label", FALSE, 0), Col(TotalCol, FALSE, 0)>>

TrendLayouts == {LayoutTotal, LayoutTotalSecond, LayoutNoTotal, LayoutNoNumeric, LayoutTextTotal}

TtfCandidates == {"nanum/NanumGothic.ttf", "nanum/NanumGothicBold.ttf", "noto/NotoSansCJK-Regular.ttc"}

LinePath    == "01_line.png"
ScatterPath == "02_scatter.png"
BubblePath  == "03_bubble.png"
PdfPath     == "portfolio.pdf"

(***************************************************************************)
(* main(), lines 73-273, and the resolver, lines 35-59.                    *)
(***************************************************************************)
\* main() with the charts drawn before the correlations (the variant C10 is tested
\* against)
NextStageChartsFirst(stage) ==
    CASE stage = "makedirs"          -> "font_scan"
      [] stage = "font_scan"         -> "provision_install"
      [] stage = "provision_install" -> "provision_fccache"
      [] stage = "provision_fccache" -> "font_rescan"
      [] stage = "font_rescan"       -> "read_csv"
      [] stage = "read_csv"          -> "aggregate_reviews"
      [] stage = "aggregate_reviews" -> "aggregate_trend"
      [] stage = "aggregate_trend"   -> "merge"
      [] stage = "merge"             -> "chart_line"
      [] stage = "chart_line"        -> "chart_scatter"
      [] stage = "chart_scatter"     -> "chart_bubble"
      [] stage = "chart_bubble"      -> "correlate"
      [] stage = "correlate"         -> "build_pdf"
      [] stage = "build_pdf"         -> "done"
\* the order of the statements of main() and of the resolver
NextStage(stage) ==
    CASE stage = "makedirs"          -> "font_scan"
      [] stage = "font_scan"         -> "provision_install"
      [] stage = "provision_install" -> "provision_fccache"
      [] stage = "provision_fccache" -> "font_rescan"
      [] stage = "font_rescan"       -> "read_csv"
      [] stage = "read_csv"          -> "aggregate_reviews"
      [] stage = "aggregate_reviews" -> "aggregate_trend"
      [] stage = "aggregate_trend"   -> "merge"
      [] stage = "merge"             -> "correlate"
      [] stage = "correlate"         -> "chart_line"
      [] stage = "chart_line"        -> "chart_scatter"
      [] stage = "chart_scatter"     -> "chart_bubble"
      [] stage = "chart_bubble"      -> "build_pdf"
      [] stage = "build_pdf"         -> "done"

FontStages == {"font_scan", "provision_install", "provision_fccache", "font_rescan"}

InitWith(inventories, stage) ==
    /\ pc = stage
    /\ crashedAt = ""
    /\ ttflist \in inventories
    /\ hostFonts = Range(ttflist)
    /\ fontCacheFile = {}
    /\ cmdLog = <<>>
    /\ kr_font = None
    /\ rcFontFamily = None
    /\ reviews = <<>>
    /\ trend = [cols |-> <<>>, rows |-> <<>>]
    /\ weekly_reviews = <<>>
    /\ weekly_trend = <<>>
    /\ trend_metric_col = NoCol
    /\ merged = <<>>
    /\ pear = NoStat
    /\ spear = NoStat
    /\ charts = <<>>
    /\ doc = NoDoc

\* a host with a preferred family, and one with none
Init == InitWith({<<DejaVuSans, NanumGothic>>, <<DejaVuSans>>}, "makedirs")

\* an uncaught exception ends the run
Crash(stage) == pc' = "crashed" /\ crashedAt' = stage

\* line 74
MakeDirs ==
    /\ pc = "makedirs"
    /\ \E ok \in BOOLEAN :
          IF ok THEN pc' = NextStage(pc) /\ crashedAt' = crashedAt
          ELSE Crash("makedirs")
    /\ UNCHANGED <<fontVars, dataVars, outVars>>

\* a return of the resolver, and lines 77-80
FontReturn(name) ==
    /\ kr_font' = name
    /\ rcFontFamily' = IF name # None THEN name ELSE rcFontFamily
    /\ pc' = NextStage("font_rescan")

\* lines 36-40
FontScan ==
    /\ pc = "font_scan"
    /\ LET c == FirstCandidate(Available(ttflist))
       IN  IF c # None THEN FontReturn(c)
           ELSE pc' = NextStage(pc) /\ UNCHANGED <<kr_font, rcFontFamily>>
    /\ UNCHANGED <<crashedAt, ttflist, hostFonts, fontCacheFile, cmdLog, dataVars, outVars>>

\* lines 43-47 without the except clause (the variant C7 is tested against)
OnProvisionErrorRaise(stage) == "crashed"
\* lines 46-47: an exception of either command leaves the try block for line 49
OnProvisionError(stage) == "font_rescan"

\* line 44
ProvisionInstall ==
    /\ pc = "provision_install"
    /\ \E ok \in BOOLEAN :
          /\ cmdLog' = Append(cmdLog, [cmd |-> "apt-get", ok |-> ok])
          /\ hostFonts' = IF ok THEN hostFonts \cup PackageFonts ELSE hostFonts
          /\ pc' = IF ok THEN NextStage(pc) ELSE OnProvisionError(pc)
    /\ crashedAt' = IF pc' = "crashed" THEN pc ELSE crashedAt
    /\ UNCHANGED <<ttflist, fontCacheFile, kr_font, rcFontFamily, dataVars, outVars>>

\* line 45
ProvisionFcCache ==
    /\ pc = "provision_fccache"
    /\ \E ok \in BOOLEAN :
          /\ cmdLog' = Append(cmdLog, [cmd |-> "fc-cache", ok |-> ok])
          /\ pc' = IF ok THEN NextStage(pc) ELSE OnProvisionError(pc)
    /\ crashedAt' = IF pc' = "crashed" THEN pc ELSE crashedAt
    /\ UNCHANGED <<ttflist, hostFonts, fontCacheFile, kr_font, rcFontFamily, dataVars, outVars>>

\* lines 49-59
FontRescan ==
    /\ pc = "font_rescan"
    /\ fontCacheFile' = hostFonts
    /\ ttflist' = ManagerAfterReload(ttflist, hostFonts)
    /\ LET c == FirstCandidate(Available(ttflist'))
       IN  IF c # None THEN FontReturn(c) ELSE FontReturn(FirstHinted(ttflist'))
    /\ UNCHANGED <<crashedAt, hostFonts, cmdLog, dataVars, outVars>>

\* lines 83-84
ReadCsv ==
    /\ pc = "read_csv"
    /\ \E found \in BOOLEAN :
          IF found
          THEN /\ reviews' \in ReviewInputs(ReviewCells)
               /\ \E layout \in TrendLayouts, rows \in TrendRowInputs(TrendCells) :
                     trend' = [cols |-> layout, rows |-> rows]
               /\ pc' = NextStage(pc) /\ crashedAt' = crashedAt
          ELSE Crash("read_csv") /\ UNCHANGED <<reviews, trend>>
    /\ UNCHANGED <<fontVars, weekly_reviews, weekly_trend, trend_metric_col, merged, outVars>>

\* lines 86-92
AggregateReviews ==
    /\ pc = "aggregate_reviews"
    /\ IF \A i \in 1..Len(reviews) : Parseable(reviews[i].at)
       THEN /\ weekly_reviews' = GroupReviews(ReviewFrame(reviews))
            /\ pc' = NextStage(pc) /\ crashedAt' = crashedAt
       ELSE Crash("aggregate_reviews") /\ UNCHANGED weekly_reviews
    /\ UNCHANGED <<fontVars, reviews, trend, weekly_trend, trend_metric_col, merged, outVars>>

\* lines 94-105
AggregateTrend ==
    /\ pc = "aggregate_trend"
    /\ IF \A i \in 1..Len(trend.rows) : Parseable(trend.rows[i].date)
       THEN LET frame == TrendFrame(trend)
                col   == SelectMetric(frame)
            IN  /\ trend_metric_col' = col
                /\ IF CanAggregate(frame, col)
                   THEN /\ weekly_trend' = GroupTrend(frame, col)
                        /\ pc' = NextStage(pc) /\ crashedAt' = crashedAt
                   ELSE Crash("aggregate_trend") /\ UNCHANGED weekly_trend
       ELSE Crash("aggregate_trend") /\ UNCHANGED <<weekly_trend, trend_metric_col>>
    /\ UNCHANGED <<fontVars, reviews, trend, weekly_reviews, merged, outVars>>

\* lines 107-108
Merge ==
    /\ pc = "merge"
    /\ merged' = MergeWithIndex(weekly_reviews, weekly_trend)
    /\ pc' = NextStage(pc)
    /\ UNCHANGED <<crashedAt, fontVars, reviews, trend, weekly_reviews, weekly_trend,
                   trend_metric_col, outVars>>

\* lines 111-112
Correlate ==
    /\ pc = "correlate"
    /\ LET x == [i \in 1..Len(merged) |-> merged[i].trend_mean]
           y == [i \in 1..Len(merged) |-> merged[i].avg_score]
       IN  IF PearsonRaises(x, y)
           THEN Crash("correlate") /\ UNCHANGED <<pear, spear>>
           ELSE /\ pear' = Pearson(x, y)
                /\ spear' = Spearman(x, y)
                /\ pc' = NextStage(pc) /\ crashedAt' = crashedAt
    /\ UNCHANGED <<fontVars, dataVars, charts, doc>>

\* plt.savefig(path) with the metric column in the chart's label; the write may fail
SaveChart(stage, path) ==
    /\ pc = stage
    /\ \E ok \in BOOLEAN :
          IF ok
          THEN /\ charts' = Append(charts, [path |-> path, label |-> trend_metric_col])
               /\ pc' = NextStage(pc) /\ crashedAt' = crashedAt
          ELSE Crash(stage) /\ UNCHANGED charts
    /\ UNCHANGED <<fontVars, dataVars, pear, spear, doc>>

\* lines 119-126
ChartLine == SaveChart("chart_line", LinePath)
\* lines 128-134
ChartScatter == SaveChart("chart_scatter", ScatterPath)
\* lines 136-143
ChartBubble == SaveChart("chart_bubble", BubblePath)

\* lines 146-272: the document is written by doc.build, which reads the three images
BuildPdf ==
    /\ pc = "build_pdf"
    /\ \E existing \in SUBSET TtfCandidates, ok \in BOOLEAN :
          IF ok /\ {LinePath, ScatterPath, BubblePath} \subseteq {charts[i].path : i \in 1..Len(charts)}
          THEN /\ doc' = [written |-> TRUE,
                          font_name |-> RegisterKoreanFontReportlab(existing),
                          metric |-> trend_metric_col,
                          pearson |-> StatCell(pear),
                          spearman |-> StatCell(spear),
                          images |-> <<LinePath, ScatterPath, BubblePath>>]
               /\ pc' = NextStage(pc) /\ crashedAt' = crashedAt
          ELSE Crash("build_pdf") /\ UNCHANGED doc
    /\ UNCHANGED <<fontVars, dataVars, pear, spear, charts>>

Next ==
    \/ MakeDirs
    \/ FontScan
    \/ ProvisionInstall
    \/ ProvisionFcCache
    \/ FontRescan
    \/ ReadCsv
    \/ AggregateReviews
    \/ AggregateTrend
    \/ Merge
    \/ Correlate
    \/ ChartLine
    \/ ChartScatter
    \/ ChartBubble
    \/ BuildPdf

Spec == Init /\ [][Next]_vars

(***************************************************************************)
(* The resolver alone, over every inventory of up to MaxFonts entries.     *)
(***************************************************************************)
InitFont == InitWith(BoundedSeq(FontNames, MaxFonts), "makedirs")

NextFont ==
    \/ MakeDirs
    \/ FontScan
    \/ ProvisionInstall
    \/ ProvisionFcCache
    \/ FontRescan

SpecFont == InitFont /\ [][NextFont]_vars

(***************************************************************************)
(* Aggregation and join alone, over files whose days span five ISO weeks   *)
(* across a year boundary. The run starts where read_csv has returned, on  *)
(* a host whose initial scan found NanumGothic.                            *)
(***************************************************************************)
InitJoin ==
    /\ pc = "aggregate_reviews"
    /\ crashedAt = ""
    /\ ttflist = <<DejaVuSans, NanumGothic>>
    /\ hostFonts = Range(ttflist)
    /\ fontCacheFile = {}
    /\ cmdLog = <<>>
    /\ kr_font = NanumGothic
    /\ rcFontFamily = NanumGothic
    /\ reviews \in ReviewInputs([at : JoinDates, score : Scores])
    /\ \E rows \in TrendRowInputs([date : JoinDates, base : Bases]) :
          trend = [cols |-> LayoutTotal, rows |-> rows]
    /\ weekly_reviews = <<>>
    /\ weekly_trend = <<>>
    /\ trend_metric_col = NoCol
    /\ merged = <<>>
    /\ pear = NoStat
    /\ spear = NoStat
    /\ charts = <<>>
    /\ doc = NoDoc

NextJoin ==
    \/ AggregateReviews
    \/ AggregateTrend
    \/ Merge

SpecJoin == InitJoin /\ [][NextJoin]_vars

(***************************************************************************)
(* Properties.                                                             *)
(***************************************************************************)
StageOrder == <<"makedirs", "font_scan", "provision_install", "provision_fccache",
                "font_rescan", "read_csv", "aggregate_reviews", "aggregate_trend",
                "merge", "correlate", "chart_line", "chart_scatter", "chart_bubble",
                "build_pdf", "done">>
StageNo(stage) == CHOOSE i \in 1..Len(StageOrder) : StageOrder[i] = stage

\* the stage the run is at, or died in
Position == IF pc = "crashed" THEN crashedAt ELSE pc

\* the stage has run to its end without raising
Passed(stage) == StageNo(Position) > StageNo(stage)

AggKeys(agg) == {KeyOf(agg[i]) : i \in 1..Len(agg)}

RECURSIVE SumOver(_, _)
SumOver(f, S) ==
    IF S = {} THEN 0
    ELSE LET x == CHOOSE x \in S : TRUE IN f[x] + SumOver(f, S \ {x})

\* C1: the joined table holds one row for each (iso_year, iso_week) key that both
\* weekly aggregates hold, and no other row: its length is the size of the
\* intersection of the two key sets, and a key of one aggregate only is absent.
C1_JoinIsKeyIntersection ==
    Passed("merge") =>
        LET both == AggKeys(weekly_reviews) \cap AggKeys(weekly_trend)
        IN  /\ Len(merged) = Cardinality(both)
            /\ AggKeys(merged) = both
            /\ \A k \in both :
                   Cardinality({i \in 1..Len(merged) : KeyOf(merged[i]) = k}) = 1

\* C1 witness: a join that keeps a shared week and drops a week of each side
C1_Witness ==
    /\ Passed("merge")
    /\ Len(merged) >= 1
    /\ AggKeys(weekly_reviews) \ AggKeys(weekly_trend) # {}
    /\ AggKeys(weekly_trend) \ AggKeys(weekly_reviews) # {}

\* C2: weekly aggregation yields exactly one row per (ISO year, ISO week) key of
\* the input rows; avg_score is the mean of the scores of the rows of that key,
\* review_count their number, and trend_mean the mean of the metric over the trend
\* rows of that key.
C2_WeeklyAggregation ==
    /\ Passed("aggregate_reviews") =>
          /\ \A i \in 1..Len(reviews) :
                Cardinality({j \in 1..Len(weekly_reviews) :
                                KeyOf(weekly_reviews[j]) = IsoCalendar(reviews[i].at)}) = 1
          /\ \A j \in 1..Len(weekly_reviews) :
                LET of == {i \in 1..Len(reviews) :
                              IsoCalendar(reviews[i].at) = KeyOf(weekly_reviews[j])}
                    score == [i \in 1..Len(reviews) |-> reviews[i].score]
                IN  /\ of # {}
                    /\ weekly_reviews[j].review_count = Cardinality(of)
                    /\ weekly_reviews[j].avg_score.num * Cardinality(of)
                          = weekly_reviews[j].avg_score.den * SumOver(score, of)
    /\ Passed("aggregate_trend") =>
          LET frame == TrendFrame(trend) IN
          /\ \A i \in 1..Len(trend.rows) :
                Cardinality({j \in 1..Len(weekly_trend) :
                                KeyOf(weekly_trend[j]) = IsoCalendar(trend.rows[i].date)}) = 1
          /\ \A j \in 1..Len(weekly_trend) :
                LET of == {i \in 1..Len(trend.rows) :
                              IsoCalendar(trend.rows[i].date) = KeyOf(weekly_trend[j])}
                    metric == [i \in 1..Len(trend.rows) |->
                                  Cell(frame, frame.rows[i], trend_metric_col)]
                IN  /\ of # {}
                    /\ weekly_trend[j].trend_mean.num * Cardinality(of)
                          = weekly_trend[j].trend_mean.den * SumOver(metric, of)

\* C2 witness: scores 5 and 3 and metrics 10 and 20, all of ISO week (2024, 1),
\* aggregated to avg_score 4.0, review_count 2 and trend_mean 15.0
C2_Witness ==
    /\ Passed("aggregate_trend")
    /\ reviews = <<[at |-> D20240103, score |-> 5], [at |-> D20240104, score |-> 3]>>
    /\ trend.rows = <<[date |-> D20240103, base |-> 10], [date |-> D20240104, base |-> 20]>>
    /\ trend_metric_col = TotalCol
    /\ weekly_reviews = <<[iso_year |-> 2024, iso_week |-> 1,
                           avg_score |-> [num |-> 4, den |-> 1], review_count |-> 2]>>
    /\ weekly_trend = <<[iso_year |-> 2024, iso_week |-> 1,
                         trend_mean |-> [num |-> 15, den |-> 1]]>>

\* C3: when the joined table has no row because the two sources share no week, the
\* statistics step does not end the run with an error. (Stated for the runs whose
\* metric is the source's own "jeonche" column, so that no other step is at play.)
C3_EmptyJoinDoesNotCrash ==
    (/\ Passed("merge")
     /\ merged = <<>>
     /\ AggKeys(weekly_reviews) # {} /\ AggKeys(weekly_trend) # {}
     /\ trend_metric_col = TotalCol)
    => ~(pc = "crashed" /\ crashedAt = "correlate")

\* C4: no NaN coefficient and no NaN p-value is written into the statistics table
\* of the document. (Stated for the runs whose metric is the source's own "jeonche"
\* column, so that no other step is at play.)
C4_NoNaNInDocument ==
    (doc.written /\ trend_metric_col = TotalCol) =>
        \A cell \in {doc.pearson, doc.spearman} : cell[1] # "nan" /\ cell[2] # "nan"

\* C5: a trend source with no numeric column of its own and no "jeonche" column
\* fails at metric selection or aggregation; a derived week-key column is never
\* taken as the metric, and the run never gets past the aggregation.
C5_NoNumericColumnFails ==
    (/\ Passed("read_csv")
     /\ NumericCols(trend.cols) = <<>>
     /\ TotalCol \notin ColNames(trend.cols))
    => /\ trend_metric_col \notin {"iso_year", "iso_week"}
       /\ ~Passed("aggregate_trend")

\* C6: the metric is "jeonche" if the trend table has that column, else the first
\* numeric column of the trend source in column order; that column is the one
\* drawn in the chart labels and the one named in the document.
C6_MetricSelection ==
    /\ trend_metric_col # NoCol =>
          IF TotalCol \in ColNames(trend.cols)
          THEN trend_metric_col = TotalCol
          ELSE /\ NumericCols(trend.cols) # <<>>
               /\ trend_metric_col = Head(NumericCols(trend.cols))
    /\ \A i \in 1..Len(charts) : charts[i].label = trend_metric_col
    /\ doc.written => doc.metric = trend_metric_col

Runs(cmd) == {i \in 1..Len(cmdLog) : cmdLog[i].cmd = cmd}

\* C7: whatever fonts are installed and however the provisioning commands end, the
\* resolver never ends the run and never stops short of returning: it returns a
\* font name or None and main() goes on to load the data; the install command runs
\* at most once, and fc-cache runs only after an install that succeeded.
C7_ProvisioningNeverAborts ==
    /\ ~(pc = "crashed" /\ crashedAt \in FontStages)
    /\ pc \in FontStages => ENABLED NextFont
    /\ Passed("font_rescan") => kr_font \in FontNames \cup {None}
    /\ Cardinality(Runs("apt-get")) <= 1
    /\ Cardinality(Runs("fc-cache")) <= 1
    /\ \A i \in Runs("fc-cache") :
          i = 2 /\ cmdLog[1] = [cmd |-> "apt-get", ok |-> TRUE]

\* C7 witness: the install command failed, fc-cache was not run, and main() is at
\* the load
C7_Witness ==
    /\ pc = "read_csv"
    /\ cmdLog = <<[cmd |-> "apt-get", ok |-> FALSE]>>

\* C8: the resolver returns the first preferred family installed at the first
\* scan; it provisions only when there is none; after the re-scan it returns the
\* first preferred family then installed, else an installed font that a hint
\* matches, and None exactly when no installed font matches either.
\* (ttflist is the inventory of the first scan, hostFonts what is installed.)
C8_ResolverResult ==
    Passed("font_rescan") =>
        IF FirstCandidate(Range(ttflist)) # None
        THEN kr_font = FirstCandidate(Range(ttflist)) /\ cmdLog = <<>>
        ELSE /\ cmdLog # <<>>
             /\ IF FirstCandidate(hostFonts) # None
                THEN kr_font = FirstCandidate(hostFonts)
                ELSE IF \E f \in hostFonts : MatchesHint(f)
                THEN kr_font \in hostFonts /\ MatchesHint(kr_font)
                ELSE kr_font = None

\* C9: week_index = year*100 + week grows strictly with the chronological order of
\* the (ISO year, ISO week) keys, weeks being within 1..53, inside a year and over
\* a year boundary; so the rows of the joined table have distinct week_index.
C9_WeekIndexMonotone ==
    Passed("merge") =>
        \A i, j \in 1..Len(merged) :
            /\ merged[i].iso_week \in 1..53
            /\ KeyLess(KeyOf(merged[i]), KeyOf(merged[j]))
                  => merged[i].week_index < merged[j].week_index
            /\ KeyOf(merged[i]) # KeyOf(merged[j])
                  => merged[i].week_index # merged[j].week_index

\* C9 witness: the joined table holds week 53 of 2020 and week 1 of 2021
C9_Witness ==
    /\ Passed("merge")
    /\ {[year |-> 2020, week |-> 53], [year |-> 2021, week |-> 1]} \subseteq AggKeys(merged)

\* C10: the chart files are written in the order line, scatter, bubble and only
\* once both correlations are computed, which follow the join, which follows the
\* aggregation, which follows the load, which follows the font resolution; the
\* document is written only with all three chart files there; a run that failed
\* wrote no document.
C10_StageOrder ==
    /\ \A i \in 1..Len(charts) : charts[i].path = <<LinePath, ScatterPath, BubblePath>>[i]
    /\ Len(charts) <= 3
    /\ charts # <<>> => pear.set /\ spear.set
    /\ (pear.set \/ spear.set) => Passed("merge")
    /\ merged # <<>> => Passed("aggregate_trend")
    /\ trend.cols # <<>> => Passed("font_rescan")
    /\ doc.written => Len(charts) = 3 /\ pc = "done"
    /\ pc = "crashed" => ~doc.written

\* C10 witness: a run that failed at the second chart left the first chart only
C10_Witness ==
    /\ pc = "crashed" /\ crashedAt = "chart_scatter"
    /\ Len(charts) = 1 /\ charts[1].path = LinePath
    /\ pear.set /\ spear.set
    /\ ~doc.written

====
